---- MODULE Spec2Model ----
(***************************************************************************)
(* Model of the diff tree utilities (utils/diffTree): toFileStats, which   *)
(* maps the change records of a diff to per-file statistics, and           *)
(* buildDiffTree, which turns those statistics into a sorted forest of     *)
(* directory and file nodes with aggregated add/del counts.                *)
(*                                                                         *)
(* A string is a sequence of one-character strings, so that split,         *)
(* replace and the path joins are computed character by character.         *)
(***************************************************************************)
EXTENDS Integers, Sequences, FiniteSets, TLC

VARIABLES
    stats,      \* buildDiffTree: the FileStat[] argument of the call
    given,      \* the caller's copy of that argument, taken before the call
    root,       \* buildDiffTree: the local `root` map as the insertion loop left it
    forest,     \* buildDiffTree: the DiffTreeNode[] the latest call returned
    first,      \* the forest the first call on stats returned
    other,      \* the argument of the latest call made on another input
    diffs,      \* toFileStats: the Diff[] argument of the call
    lib,        \* what generateDiffFile/initRaw does for each record of diffs
    pc,         \* position of the caller; in a component, the latest event
    expanded,       \* DiffFileTree: the `expanded` state, a set of directory paths
    allDirPaths,    \* DiffFileTree: the memoised list of the tree's directory paths
    seenDirs,       \* the directory paths of the trees before the current one
    userCollapsed,  \* the paths toggleDir removed and no later toggle touched
    containerName,  \* useContainerLogs: the argument of the hook
    logs,           \* useContainerLogs: the `logs` state
    error,          \* useContainerLogs: the `error` state
    isActive,       \* useContainerLogs: the `isActive` state
    wsRef,          \* useContainerLogs: wsRef.current, an index of sockets or 0 for null
    sockets,        \* the WebSockets the hook created, in creation order
    received,       \* the messages delivered since the latest open event
    delivered,      \* how many messages were delivered since the mount
    services,       \* EnvironmentPanel: the containerNames of the query's services
    selectedId,     \* EnvironmentPanel: the `selectedId` state
    isRestarting,   \* EnvironmentPanel: the `isRestarting` state
    restartStatus,  \* EnvironmentPanel: the type of the `restartStatus` state
    requests,       \* the handleRestart calls that are waiting at an await
    continued       \* the service of the call that continued in the latest step

treeVars == <<expanded, allDirPaths, seenDirs, userCollapsed>>

logVars == <<containerName, logs, error, isActive, wsRef, sockets, received, delivered>>

panelVars == <<services, selectedId, isRestarting, restartStatus, requests, continued>>

vars == <<stats, given, root, forest, first, other, diffs, lib, pc, treeVars, logVars, panelVars>>

\* No DiffFileTree is mounted.
TreeUnmounted ==
    /\ expanded = {}
    /\ allDirPaths = <<>>
    /\ seenDirs = {}
    /\ userCollapsed = {}

\* No component uses useContainerLogs.
LogsUnmounted ==
    /\ containerName = <<>>
    /\ logs = <<>>
    /\ error = "null"
    /\ isActive = FALSE
    /\ wsRef = 0
    /\ sockets = <<>>
    /\ received = <<>>
    /\ delivered = 0

\* No EnvironmentPanel is mounted.
PanelUnmounted ==
    /\ services = <<>>
    /\ selectedId = "null"
    /\ isRestarting = FALSE
    /\ restartStatus = "null"
    /\ requests = <<>>
    /\ continued = "null"

(***************************************************************************)
(* Bounds and input sets                                                   *)
(***************************************************************************)
MaxStats == 3

MaxDiffs == 2

Slash == "/"

\* "", "a", "B", "aB", "a/B", "a/a", "B/a", "/a", "a//B", "a/B/a"
Paths ==
    { <<>>, <<"a">>, <<"B">>, <<"a", "B">>,
      <<"a", "/", "B">>, <<"a", "/", "a">>, <<"B", "/", "a">>,
      <<"/", "a">>, <<"a", "/", "/", "B">>, <<"a", "/", "B", "/", "a">> }

\* id, change and the line counts of a stat
Attrs ==
    { [id |-> <<"x">>, change |-> "added", add |-> 1, del |-> 0],
      [id |-> <<"y">>, change |-> "modified", add |-> 2, del |-> 3],
      [id |-> <<"z">>, change |-> "deleted", add |-> 0, del |-> 4] }

StatSet ==
    { [id |-> a.id, path |-> p, change |-> a.change, add |-> a.add, del |-> a.del] :
        p \in Paths, a \in Attrs }

SeqsUpTo(S, n) == UNION { [1..k -> S] : k \in 0..n }

(***************************************************************************)
(* String helpers                                                          *)
(***************************************************************************)
\* String.prototype.split(sep) for a one-character separator: the pieces
\* between separators, empty pieces included ("".split("/") is [""]).
RECURSIVE split(_, _)
split(str, sep) ==
    IF \A i \in 1..Len(str) : str[i] # sep
    THEN <<str>>
    ELSE LET i == CHOOSE i \in 1..Len(str) :
                    str[i] = sep /\ \A j \in 1..(i - 1) : str[j] # sep
         IN  <<SubSeq(str, 1, i - 1)>> \o split(SubSeq(str, i + 1, Len(str)), sep)

\* Boolean(str): the empty string is falsy
Boolean(str) == str # <<>>

\* Faulty variant: the empty pieces are kept.
PartsOfUnfiltered(path) == split(path, Slash)

\* s.path.split('/').filter(Boolean)
PartsOf(path) == SelectSeq(split(path, Slash), Boolean)

\* a.name.localeCompare(b.name) on names of ASCII letters: letters compare
\* alphabetically whatever their case (a < B, where code units have B < a),
\* a proper prefix sorts first.
LetterRank(c) == CASE c = "a" -> 1 [] c = "B" -> 2

RECURSIVE localeCompare(_, _)
localeCompare(x, y) ==
    IF x = <<>> /\ y = <<>> THEN 0
    ELSE IF x = <<>> THEN -1
    ELSE IF y = <<>> THEN 1
    ELSE IF LetterRank(Head(x)) < LetterRank(Head(y)) THEN -1
    ELSE IF LetterRank(Head(x)) > LetterRank(Head(y)) THEN 1
    ELSE localeCompare(Tail(x), Tail(y))

(***************************************************************************)
(* The object-style maps of buildDiffTree: a sequence of [key, node]       *)
(* entries in Object.keys order (insertion order; assigning to an          *)
(* existing key keeps its place).                                          *)
(***************************************************************************)
Has(map, key) == \E i \in 1..Len(map) : map[i].key = key

IndexOf(map, key) == CHOOSE i \in 1..Len(map) : map[i].key = key

Get(map, key) == map[IndexOf(map, key)].node

\* Faulty variant: an existing key keeps its first node.
PutKeepFirst(map, key, node) ==
    IF Has(map, key) /\ Get(map, key).type = node.type /\ node.type = "file"
    THEN map
    ELSE IF Has(map, key)
    THEN [map EXCEPT ![IndexOf(map, key)] = [key |-> key, node |-> node]]
    ELSE Append(map, [key |-> key, node |-> node])

\* Faulty variant: the node is pushed as a new entry even when the key exists.
PutPush(map, key, node) == Append(map, [key |-> key, node |-> node])

Put(map, key, node) ==
    IF Has(map, key)
    THEN [map EXCEPT ![IndexOf(map, key)] = [key |-> key, node |-> node]]
    ELSE Append(map, [key |-> key, node |-> node])

HasChildMap(node) == "childMap" \in DOMAIN node

\* Faulty variant: the anchor id is taken from the stat's path.
FileNodeIdFromPath(part, currentPath, s) ==
    [type |-> "file", name |-> part, path |-> currentPath,
     id |-> s.path, change |-> s.change, add |-> s.add, del |-> s.del]

FileNode(part, currentPath, s) ==
    [type |-> "file", name |-> part, path |-> currentPath,
     id |-> s.id, change |-> s.change, add |-> s.add, del |-> s.del]

DirNode(part, currentPath, add, del) ==
    [type |-> "dir", name |-> part, path |-> currentPath,
     children |-> <<>>, add |-> add, del |-> del]

\* x || 0 on a number
OrZero(x) == IF x = 0 THEN 0 ELSE x

(***************************************************************************)
(* buildDiffTree: the insertion loop                                       *)
(***************************************************************************)
\* Faulty variant: the path of a node is its own segment, the prefix is lost.
joinPathLeafOnly(currentPath, part) == part

\* currentPath = currentPath ? `${currentPath}/${part}` : part
joinPath(currentPath, part) ==
    IF Boolean(currentPath) THEN currentPath \o <<Slash>> \o part ELSE part

\* Faulty variant: an existing File node on the way is left as it is.
asDirUnconverted(node, part, currentPath) == node

\* if (node.type !== 'dir') cursor[part] = { type: 'dir', ... }: the node
\* found on the way down, replaced by a Directory when it is not one
asDir(node, part, currentPath) ==
    IF node.type # "dir"
    THEN DirNode(part, currentPath, OrZero(node.add), OrZero(node.del))
    ELSE node

\* One pass of the inner loop (segment i of parts) on the map under the
\* cursor, and the passes below it; returns that map as the loop leaves it.
RECURSIVE insertParts(_, _, _, _, _)
insertParts(cursor, parts, i, prevPath, s) ==
    LET part == parts[i]
        currentPath == joinPath(prevPath, part)
        isLeaf == i = Len(parts)
    IN  IF isLeaf
        THEN Put(cursor, part, FileNode(part, currentPath, s))
        ELSE LET c1 == IF ~Has(cursor, part)
                       THEN Put(cursor, part, DirNode(part, currentPath, 0, 0))
                       ELSE cursor
                 node == Get(c1, part)
                 c2 == Put(c1, part, asDir(node, part, currentPath))
                 n2 == Get(c2, part)
                 n3 == IF ~HasChildMap(n2) THEN n2 @@ [childMap |-> <<>>] ELSE n2
                 below == insertParts(n3.childMap, parts, i + 1, currentPath, s)
             IN  Put(c2, part, [n3 EXCEPT !.childMap = below])

\* The body of `for (const s of stats)` for one stat
insertStat(map, s) ==
    LET parts == PartsOf(s.path)
    IN  IF parts = <<>> THEN map ELSE insertParts(map, parts, 1, <<>>, s)

RECURSIVE insertAll(_, _, _)
insertAll(map, sts, k) ==
    IF k > Len(sts) THEN map ELSE insertAll(insertStat(map, sts[k]), sts, k + 1)

\* Faulty variant: the map outlives the call (a module-level `root`).
StaleRoot == root

\* const root = {}
NewRoot == <<>>

(***************************************************************************)
(* buildDiffTree: toArray                                                  *)
(***************************************************************************)
\* Faulty variant: only the File children are counted, sub-directories are not.
RECURSIVE SumAddFilesOnly(_)
SumAddFilesOnly(children) ==
    IF children = <<>> THEN 0
    ELSE (IF Head(children).type = "file" THEN Head(children).add ELSE 0)
         + SumAddFilesOnly(Tail(children))

RECURSIVE SumAdd(_)
SumAdd(children) ==
    IF children = <<>> THEN 0 ELSE Head(children).add + SumAdd(Tail(children))

RECURSIVE SumDel(_)
SumDel(children) ==
    IF children = <<>> THEN 0 ELSE Head(children).del + SumDel(Tail(children))

\* Faulty variant: the comparator forgets the directories-first rule.
compareNodesByName(a, b) == localeCompare(a.name, b.name)

\* The comparator given to arr.sort
compareNodes(a, b) ==
    IF a.type # b.type
    THEN (IF a.type = "dir" THEN -1 ELSE 1)
    ELSE localeCompare(a.name, b.name)

\* Array.prototype.sort (stable): each element goes behind the elements
\* that do not compare greater than it.
RECURSIVE insertSorted(_, _)
insertSorted(sorted, n) ==
    IF sorted = <<>> THEN <<n>>
    ELSE IF compareNodes(Head(sorted), n) > 0 THEN <<n>> \o sorted
    ELSE <<Head(sorted)>> \o insertSorted(Tail(sorted), n)

\* Faulty variant: the array is returned in insertion order.
sortNodesKeep(arr) == arr

RECURSIVE sortNodes(_)
sortNodes(arr) ==
    IF arr = <<>> THEN <<>>
    ELSE insertSorted(sortNodes(SubSeq(arr, 1, Len(arr) - 1)), arr[Len(arr)])

RECURSIVE toArray(_)
\* Faulty variant: the counts the insertion loop left on a directory are kept
\* and the children's counts are added to them.
arrayNodeCarry(node) ==
    IF node.type = "dir"
    THEN LET children == IF HasChildMap(node) THEN toArray(node.childMap) ELSE <<>>
         IN  [node EXCEPT !.children = children,
                          !.add = node.add + SumAdd(children),
                          !.del = node.del + SumDel(children)]
    ELSE node

\* The body of `for (const key of Object.keys(map))` for one node
arrayNode(node) ==
    IF node.type = "dir"
    THEN LET children == IF HasChildMap(node) THEN toArray(node.childMap) ELSE <<>>
         IN  [node EXCEPT !.children = children,
                          !.add = SumAdd(children),
                          !.del = SumDel(children)]
    ELSE node

toArray(map) == sortNodes([k \in 1..Len(map) |-> arrayNode(map[k].node)])

buildDiffTree(sts) == toArray(insertAll(NewRoot, sts, 1))

(***************************************************************************)
(* Calls of buildDiffTree on every bounded FileStat sequence               *)
(***************************************************************************)
Init ==
    /\ stats \in SeqsUpTo(StatSet, MaxStats)
    /\ given = stats
    /\ root = <<>>
    /\ forest = <<>>
    /\ first = <<>>
    /\ other = <<>>
    /\ diffs = <<>>
    /\ lib = <<>>
    /\ pc = "start"
    /\ TreeUnmounted
    /\ LogsUnmounted
    /\ PanelUnmounted

Build ==
    /\ pc = "start"
    /\ root' = insertAll(NewRoot, stats, 1)
    /\ forest' = toArray(root')
    /\ first' = forest'
    /\ pc' = "built"
    /\ UNCHANGED <<stats, given, other, diffs, lib, treeVars, logVars, panelVars>>

Next == Build

Spec == Init /\ [][Next]_vars

(***************************************************************************)
(* Repeated calls: the first call on stats, calls on other inputs, and a   *)
(* second call on stats. Every call starts from its own `root`.            *)
(***************************************************************************)
\* the stats of one id, change and counts, for the inputs of repeated calls
CallStatSet == { s \in StatSet : s.id = <<"x">> }

InitCalls ==
    /\ stats \in SeqsUpTo(CallStatSet, MaxStats)
    /\ given = stats
    /\ root = <<>>
    /\ forest = <<>>
    /\ first = <<>>
    /\ other = <<>>
    /\ diffs = <<>>
    /\ lib = <<>>
    /\ pc = "start"
    /\ TreeUnmounted
    /\ LogsUnmounted
    /\ PanelUnmounted

\* buildDiffTree([o]) between the two calls on stats
CallOther ==
    /\ pc \in {"built", "between"}
    /\ \E o \in CallStatSet :
          /\ other' = <<o>>
          /\ root' = insertAll(NewRoot, other', 1)
    /\ forest' = toArray(root')
    /\ pc' = "between"
    /\ UNCHANGED <<stats, given, first, diffs, lib, treeVars, logVars, panelVars>>

\* buildDiffTree(stats) again
Rebuild ==
    /\ pc \in {"built", "between"}
    /\ root' = insertAll(NewRoot, stats, 1)
    /\ forest' = toArray(root')
    /\ pc' = "rebuilt"
    /\ UNCHANGED <<stats, given, first, other, diffs, lib, treeVars, logVars, panelVars>>

NextCalls == Build \/ CallOther \/ Rebuild

SpecCalls == InitCalls /\ [][NextCalls]_vars

(***************************************************************************)
(* toFileStats                                                             *)
(***************************************************************************)
\* A Diff has change and, when they are not null, oldPath and newPath.
NewPaths == { <<>>, <<"B">>, <<"/", "/", "a", "/", "B">> }

OldPaths == { <<>>, <<"/", "a">> }

Changes == {"added", "renamed"}

DiffSet ==
    { [change |-> c] : c \in Changes }
    \cup { [change |-> c, newPath |-> n] : c \in Changes, n \in NewPaths }
    \cup { [change |-> c, oldPath |-> o] : c \in Changes, o \in OldPaths }
    \cup { [change |-> c, oldPath |-> o, newPath |-> n] :
              c \in Changes, o \in OldPaths, n \in NewPaths }

\* What generateDiffFile and initRaw do for one record: one of them throws,
\* or the file has its lengths, or a length is undefined.
LibOutcomes ==
    { [error |-> "thrown"],
      [additionLength |-> 1, deletionLength |-> 2],
      [deletionLength |-> 3] }

\* String(i) for i >= 0
DigitChar(d) ==
    CASE d = 0 -> "0" [] d = 1 -> "1" [] d = 2 -> "2" [] d = 3 -> "3" [] d = 4 -> "4"
      [] d = 5 -> "5" [] d = 6 -> "6" [] d = 7 -> "7" [] d = 8 -> "8" [] d = 9 -> "9"

RECURSIVE StringOf(_)
StringOf(i) ==
    IF i < 10 THEN <<DigitChar(i)>> ELSE Append(StringOf(i \div 10), DigitChar(i % 10))

\* Faulty variant: only one leading slash is removed (/^\// for /^\/+/).
replaceOneLeadingSlash(str) ==
    IF str # <<>> /\ Head(str) = Slash THEN Tail(str) ELSE str

\* str.replace(/^\/+/, '')
RECURSIVE replaceLeadingSlashes(_)
replaceLeadingSlashes(str) ==
    IF str # <<>> /\ Head(str) = Slash THEN replaceLeadingSlashes(Tail(str)) ELSE str

\* d[f] is truthy: neither null nor ""
Truthy(d, f) == f \in DOMAIN d /\ Boolean(d[f])

\* d.newPath || d.oldPath || String(i)
pathOrIndex(d, i) ==
    IF Truthy(d, "newPath") THEN d.newPath
    ELSE IF Truthy(d, "oldPath") THEN d.oldPath
    ELSE StringOf(i)

\* x ?? 0 on a field of the diff file
LengthOrZero(file, f) == IF f \in DOMAIN file THEN file[f] ELSE 0

\* Faulty variant: no try/catch, what the library throws leaves the function.
computeAddDelNoCatch(diff, outcome) ==
    IF "error" \in DOMAIN outcome
    THEN [thrown |-> outcome.error]
    ELSE [add |-> LengthOrZero(outcome, "additionLength"),
          del |-> LengthOrZero(outcome, "deletionLength")]

\* computeAddDelForDiff(diff), the library doing `outcome` for this record
computeAddDelForDiff(diff, outcome) ==
    IF "error" \in DOMAIN outcome
    THEN [add |-> 0, del |-> 0]
    ELSE [add |-> LengthOrZero(outcome, "additionLength"),
          del |-> LengthOrZero(outcome, "deletionLength")]

\* The callback of diffs.map for the record d at index i (from 0)
statOf(d, i, outcome) ==
    LET counts == computeAddDelForDiff(d, outcome)
    IN  IF "thrown" \in DOMAIN counts
        THEN counts
        ELSE [id |-> pathOrIndex(d, i),
              path |-> replaceLeadingSlashes(pathOrIndex(d, i)),
              change |-> d.change,
              add |-> counts.add,
              del |-> counts.del]

\* toFileStats(diffs): the array, or the error that left a callback
toFileStats(ds, outcomes) ==
    LET mapped == [k \in 1..Len(ds) |-> statOf(ds[k], k - 1, outcomes[k])]
    IN  IF \E k \in 1..Len(ds) : "thrown" \in DOMAIN mapped[k]
        THEN [raised |-> TRUE]
        ELSE [raised |-> FALSE, value |-> mapped]

InitExtract ==
    /\ diffs \in SeqsUpTo(DiffSet, MaxDiffs)
    /\ lib \in [1..Len(diffs) -> LibOutcomes]
    /\ stats = <<>>
    /\ given = <<>>
    /\ root = <<>>
    /\ forest = <<>>
    /\ first = <<>>
    /\ other = <<>>
    /\ pc = "start"
    /\ TreeUnmounted
    /\ LogsUnmounted
    /\ PanelUnmounted

Extract ==
    /\ pc = "start"
    /\ LET result == toFileStats(diffs, lib)
       IN  IF result.raised
           THEN pc' = "raised" /\ stats' = stats
           ELSE pc' = "extracted" /\ stats' = result.value
    /\ UNCHANGED <<given, root, forest, first, other, diffs, lib, treeVars, logVars, panelVars>>

NextExtract == Extract

SpecExtract == InitExtract /\ [][NextExtract]_vars

(***************************************************************************)
(* Vocabulary of the properties: the nodes of a forest with their routes,  *)
(* the sibling groups, sums                                                *)
(***************************************************************************)
RECURSIVE SumSeq(_)
SumSeq(ints) == IF ints = <<>> THEN 0 ELSE Head(ints) + SumSeq(Tail(ints))

Adds(nodes) == SumSeq([i \in 1..Len(nodes) |-> nodes[i].add])

Dels(nodes) == SumSeq([i \in 1..Len(nodes) |-> nodes[i].del])

\* Every node of the forest with the names on the route from a root to it
RECURSIVE Walk(_, _)
Walk(nodes, route) ==
    IF nodes = <<>> THEN <<>>
    ELSE LET n == Head(nodes)
             r == Append(route, n.name)
         IN  <<[route |-> r, node |-> n]>>
             \o (IF n.type = "dir" THEN Walk(n.children, r) ELSE <<>>)
             \o Walk(Tail(nodes), route)

\* The File nodes among nodes and below them
RECURSIVE Leaves(_)
Leaves(nodes) ==
    IF nodes = <<>> THEN <<>>
    ELSE (IF Head(nodes).type = "dir" THEN Leaves(Head(nodes).children) ELSE <<Head(nodes)>>)
         \o Leaves(Tail(nodes))

\* The sibling groups: the roots, and the children of every Directory
RECURSIVE Groups(_)
Groups(nodes) ==
    LET RECURSIVE Below(_)
        Below(ns) ==
            IF ns = <<>> THEN <<>>
            ELSE (IF Head(ns).type = "dir" THEN Groups(Head(ns).children) ELSE <<>>)
                 \o Below(Tail(ns))
    IN  <<nodes>> \o Below(nodes)

\* names joined with '/'
RECURSIVE JoinNames(_)
JoinNames(names) ==
    IF names = <<>> THEN <<>>
    ELSE IF Len(names) = 1 THEN names[1]
    ELSE names[1] \o <<"/">> \o JoinNames(Tail(names))

IsPrefix(p, q) == Len(p) <= Len(q) /\ SubSeq(q, 1, Len(p)) = p

IsProperPrefix(p, q) == Len(p) < Len(q) /\ IsPrefix(p, q)

\* The segments the k-th stat names
Segs(k) == PartsOf(stats[k].path)

Located == Walk(forest, <<>>)

NodesAt(route) == SelectSeq(Located, LAMBDA l : l.route = route)

SiblingGroups == Groups(forest)

(***************************************************************************)
(* C1: in the returned forest every Directory's add (del) is the sum of    *)
(* the add (del) of its direct children, at every depth, and so the sum of *)
(* the add (del) of the File leaves below it, for every input sequence,    *)
(* duplicates and prefix paths included.                                   *)
(***************************************************************************)
C1_DirectoryCountsAreChildSums ==
    pc = "built" =>
        \A i \in 1..Len(Located) :
            LET n == Located[i].node
            IN  n.type = "dir" =>
                    /\ n.add = Adds(n.children)
                    /\ n.del = Dels(n.children)
                    /\ n.add = Adds(Leaves(n.children))
                    /\ n.del = Dels(Leaves(n.children))

\* a nested Directory with two children, built from an input where a file
\* path is a proper prefix of a later path
C1_Witness ==
    /\ pc = "built"
    /\ \E i \in 1..Len(Located) :
          /\ Located[i].node.type = "dir"
          /\ Len(Located[i].route) = 2
    /\ \E i \in 1..Len(Located) :
          /\ Located[i].node.type = "dir"
          /\ Len(Located[i].node.children) = 2
    /\ \E j, k \in 1..Len(stats) : j < k /\ IsProperPrefix(Segs(j), Segs(k)) /\ Segs(j) # <<>>

(***************************************************************************)
(* C2: in every sibling group of the returned forest the Directories come  *)
(* before the Files, and within the Directories and within the Files the   *)
(* names are strictly increasing under localeCompare.                      *)
(***************************************************************************)
C2_SiblingsSorted ==
    pc = "built" =>
        LET groups == SiblingGroups
        IN  \A g \in 1..Len(groups) :
                LET sibs == groups[g]
                IN  \A i, j \in 1..Len(sibs) :
                        i < j =>
                            /\ sibs[i].type # sibs[j].type => sibs[i].type = "dir"
                            /\ sibs[i].type = sibs[j].type =>
                                   localeCompare(sibs[i].name, sibs[j].name) < 0

\* a group with a Directory and two Files, a File's name sorting before the
\* Directory's, from stats that were not given in sorted order
C2_Witness ==
    /\ pc = "built"
    /\ \E g \in 1..Len(SiblingGroups) :
          LET sibs == SiblingGroups[g]
          IN  /\ Len(sibs) = 3
              /\ sibs[1].type = "dir" /\ sibs[2].type = "file" /\ sibs[3].type = "file"
              /\ localeCompare(sibs[2].name, sibs[1].name) < 0
              /\ Len(stats) = 3
              /\ Segs(1) = <<sibs[3].name>>

(***************************************************************************)
(* C8: every node's path is the names on the route from a root to the node *)
(* joined with '/', and every name is a non-empty string without '/'.      *)
(***************************************************************************)
C8_PathIsJoinedRoute ==
    pc = "built" =>
        \A i \in 1..Len(Located) :
            LET l == Located[i]
            IN  /\ l.node.path = JoinNames(l.route)
                /\ l.node.name # <<>>
                /\ \A c \in 1..Len(l.node.name) : l.node.name[c] # "/"

\* a node three levels deep, and a node placed by a path with an empty segment
C8_Witness ==
    /\ pc = "built"
    /\ \E i \in 1..Len(Located) : Len(Located[i].route) = 3
    /\ \E k \in 1..Len(stats) :
          /\ JoinNames(Segs(k)) # stats[k].path
          /\ NodesAt(Segs(k)) # <<>>

(***************************************************************************)
(* C9: no two nodes of a sibling group have the same name, whatever their  *)
(* types; a path used both as a file and as a directory leaves one node.   *)
(***************************************************************************)
C9_SiblingNamesUnique ==
    pc = "built" =>
        LET groups == SiblingGroups
        IN  \A g \in 1..Len(groups) :
                LET sibs == groups[g]
                IN  \A i, j \in 1..Len(sibs) : i # j => sibs[i].name # sibs[j].name

\* a path given as a file, then as a directory, then as a file again
C9_Witness ==
    /\ pc = "built"
    /\ Len(stats) = 3
    /\ Segs(1) # <<>>
    /\ IsProperPrefix(Segs(1), Segs(2))
    /\ Segs(3) = Segs(1)
    /\ Len(NodesAt(Segs(1))) = 1

(***************************************************************************)
(* C3, as stated: for a non-empty input in which no two stats have the     *)
(* same path, every stat's id is the id of exactly one File node. Read in  *)
(* its favour: the ids are distinct, every path has a non-empty segment,   *)
(* and "the same path" is the same sequence of segments. Refuted: a stat   *)
(* whose path is later used as a directory loses its File node.            *)
(***************************************************************************)
FilesWithId(id) == SelectSeq(Leaves(forest), LAMBDA f : f.id = id)

C3_AsStated ==
    (/\ pc = "built"
     /\ stats # <<>>
     /\ \A j, k \in 1..Len(stats) : j # k => Segs(j) # Segs(k)
     /\ \A k \in 1..Len(stats) : Segs(k) # <<>>
     /\ \A j, k \in 1..Len(stats) : j # k => stats[j].id # stats[k].id)
    => \A k \in 1..Len(stats) : Len(FilesWithId(stats[k].id)) = 1

(***************************************************************************)
(* C3, amended: for a non-empty input in which every path has a non-empty  *)
(* segment, no stat's segments equal or are a prefix of another stat's     *)
(* segments, and no two stats have the same id, every stat's id is the id  *)
(* of exactly one File node.                                               *)
(***************************************************************************)
C3_EveryIdExactlyOnce ==
    (/\ pc = "built"
     /\ stats # <<>>
     /\ \A k \in 1..Len(stats) : Segs(k) # <<>>
     /\ \A j, k \in 1..Len(stats) : j # k => ~IsPrefix(Segs(j), Segs(k))
     /\ \A j, k \in 1..Len(stats) : j # k => stats[j].id # stats[k].id)
    => \A k \in 1..Len(stats) : Len(FilesWithId(stats[k].id)) = 1

\* three stats with three ids, in two directories and at the root
C3_Witness ==
    /\ pc = "built"
    /\ Len(stats) = 3
    /\ \A k \in 1..Len(stats) : Segs(k) # <<>>
    /\ \A j, k \in 1..Len(stats) : j # k => ~IsPrefix(Segs(j), Segs(k))
    /\ \A j, k \in 1..Len(stats) : j # k => stats[j].id # stats[k].id
    /\ \E k \in 1..Len(stats) : Len(Segs(k)) = 1
    /\ \E k \in 1..Len(stats) : Len(Segs(k)) = 2
    /\ \E k \in 1..Len(stats) : stats[k].path # JoinNames(Segs(k))
    /\ Len(Leaves(forest)) = 3

(***************************************************************************)
(* C4, as stated: when a stat with path p is followed by a stat whose path *)
(* has p as a proper prefix, p holds a Directory in the returned forest,   *)
(* and the add/del of the File replaced at p are carried into the          *)
(* Directory's aggregate, to which the children's counts are added. Read   *)
(* in its favour: no later stat writes a File at p or above it. Refuted:   *)
(* toArray recomputes the Directory's counts from its children alone.      *)
(***************************************************************************)
\* stat m writes a File node at the position segs or above it
WritesAtOrAbove(m, segs) == Segs(m) # <<>> /\ IsPrefix(Segs(m), segs)

\* stat j puts a File at a position that stat k then uses as a directory,
\* and no later stat puts a File there or above
ReplacedBy(j, k) ==
    /\ j < k
    /\ Segs(j) # <<>>
    /\ IsProperPrefix(Segs(j), Segs(k))
    /\ \A m \in (j + 1)..Len(stats) : ~WritesAtOrAbove(m, Segs(j))

C4_AsStated ==
    pc = "built" =>
        \A j, k \in 1..Len(stats) :
            ReplacedBy(j, k)
            => /\ Len(NodesAt(Segs(j))) = 1
               /\ LET d == NodesAt(Segs(j))[1].node
                  IN  /\ d.type = "dir"
                      /\ d.add = stats[j].add + Adds(d.children)
                      /\ d.del = stats[j].del + Dels(d.children)

(***************************************************************************)
(* C4, amended: in that case p holds a Directory in the returned forest;   *)
(* the add/del of the replaced File are copied onto the Directory node of  *)
(* the builder's map, but the returned Directory's add/del are the sums of *)
(* its children's counts alone.                                            *)
(***************************************************************************)
\* the node the builder's map holds at a position
RECURSIVE MapNodeAt(_, _)
MapNodeAt(map, segs) ==
    IF Len(segs) = 1 THEN Get(map, segs[1])
    ELSE MapNodeAt(Get(map, segs[1]).childMap, Tail(segs))

C4_ReplacedFileBecomesDirectory ==
    pc = "built" =>
        \A j, k \in 1..Len(stats) :
            ReplacedBy(j, k)
            => /\ Len(NodesAt(Segs(j))) = 1
               /\ LET d == NodesAt(Segs(j))[1].node
                  IN  /\ d.type = "dir"
                      /\ d.children # <<>>
                      /\ d.add = Adds(d.children)
                      /\ d.del = Dels(d.children)
               /\ LET n == MapNodeAt(root, Segs(j))
                  IN  /\ n.type = "dir"
                      /\ n.add = stats[j].add
                      /\ n.del = stats[j].del

\* a File with counts, then two stats below its position
C4_Witness ==
    /\ pc = "built"
    /\ Len(stats) = 3
    /\ ReplacedBy(1, 2)
    /\ ReplacedBy(1, 3)
    /\ Segs(2) # Segs(3)
    /\ stats[1].add > 0
    /\ Len(NodesAt(Segs(1))[1].node.children) = 2

(***************************************************************************)
(* C5, as stated: when two or more stats have the same path, the forest    *)
(* has exactly one File node at that position, with the id, change, add    *)
(* and del of the last such stat, and every ancestor Directory counts only *)
(* that leaf for the position. Read in its favour: the path has a          *)
(* non-empty segment, so that it names a position. Refuted: a later stat   *)
(* below or above the position replaces the File node, and a later stat    *)
(* that names the position with another spelling overwrites it.            *)
(***************************************************************************)
LastFileWins(k) ==
    LET p == Segs(k)
    IN  /\ Len(NodesAt(p)) = 1
        /\ LET f == NodesAt(p)[1].node
           IN  /\ f.type = "file"
               /\ f.id = stats[k].id
               /\ f.change = stats[k].change
               /\ f.add = stats[k].add
               /\ f.del = stats[k].del
        /\ \A i \in 1..Len(Located) :
              IsProperPrefix(Located[i].route, p) =>
                  LET d == Located[i].node
                  IN  /\ d.type = "dir"
                      /\ d.add = Adds(Leaves(d.children))
                      /\ d.del = Dels(Leaves(d.children))

C5_AsStated ==
    pc = "built" =>
        \A j, k \in 1..Len(stats) :
            (/\ j < k
             /\ stats[j].path = stats[k].path
             /\ Segs(k) # <<>>
             /\ \A m \in (k + 1)..Len(stats) : stats[m].path # stats[k].path)
            => LastFileWins(k)

(***************************************************************************)
(* C5, amended: when two or more stats have the same path, that path has a *)
(* non-empty segment, k is the last stat whose path names that position,   *)
(* and no stat after k names a position above or below it, the forest has  *)
(* exactly one File node at that position, with the id, change, add and    *)
(* del of stat k, and every ancestor Directory's add/del is the sum over   *)
(* the File nodes below it.                                                *)
(***************************************************************************)
C5_LastDuplicateWins ==
    pc = "built" =>
        \A j, k \in 1..Len(stats) :
            (/\ j < k
             /\ stats[j].path = stats[k].path
             /\ Segs(k) # <<>>
             /\ \A m \in (k + 1)..Len(stats) :
                   /\ Segs(m) # Segs(k)
                   /\ ~WritesAtOrAbove(m, Segs(k))
                   /\ ~IsProperPrefix(Segs(k), Segs(m)))
            => LastFileWins(k)

\* the same nested path twice with different id and counts, then a third
\* stat in the same directory
C5_Witness ==
    /\ pc = "built"
    /\ Len(stats) = 3
    /\ stats[1].path = stats[2].path
    /\ stats[1].id # stats[2].id
    /\ Len(Segs(2)) = 2
    /\ Len(Segs(3)) = 2
    /\ Segs(3) # Segs(2)
    /\ Segs(3)[1] = Segs(2)[1]
    /\ LastFileWins(2)

Present(d, f) == f \in DOMAIN d /\ d[f] # <<>>

DigitValue(c) == CHOOSE v \in 0..9 : DigitChar(v) = c

IsDigit(c) == \E v \in 0..9 : DigitChar(v) = c

RECURSIVE DecimalValue(_)
DecimalValue(str) ==
    IF str = <<>> THEN 0
    ELSE 10 * DecimalValue(SubSeq(str, 1, Len(str) - 1)) + DigitValue(str[Len(str)])

IsDecimalOf(str, i) ==
    /\ str # <<>>
    /\ \A c \in 1..Len(str) : IsDigit(str[c])
    /\ Len(str) > 1 => str[1] # "0"
    /\ DecimalValue(str) = i

\* short is long without all of its leading '/'
IsWithoutLeadingSlashes(short, long) ==
    /\ \E n \in 0..Len(long) :
          /\ \A c \in 1..n : long[c] = "/"
          /\ short = SubSeq(long, n + 1, Len(long))
    /\ short # <<>> => short[1] # "/"

C6_OneStatPerRecord ==
    pc = "extracted" =>
        /\ Len(stats) = Len(diffs)
        /\ \A k \in 1..Len(diffs) :
              LET d == diffs[k]
                  s == stats[k]
              IN  /\ s.change = d.change
                  /\ Present(d, "newPath") => s.id = d.newPath
                  /\ ~Present(d, "newPath") /\ Present(d, "oldPath") => s.id = d.oldPath
                  /\ ~Present(d, "newPath") /\ ~Present(d, "oldPath") =>
                         IsDecimalOf(s.id, k - 1)
                  /\ IsWithoutLeadingSlashes(s.path, s.id)

\* two records: one with a new path of several leading slashes, one with
\* neither path, of different change kinds
C6_Witness ==
    /\ pc = "extracted"
    /\ Len(diffs) = 2
    /\ diffs[1].change # diffs[2].change
    /\ \E k \in 1..2 :
          /\ Present(diffs[k], "newPath")
          /\ Len(stats[k].path) + 2 = Len(diffs[k].newPath)
    /\ \E k \in 1..2 : DOMAIN diffs[k] = {"change"} /\ IsDecimalOf(stats[k].id, k - 1)

(***************************************************************************)
(* C7: toFileStats never raises; a record for which the line-count library *)
(* fails gets add = 0 and del = 0, every other record gets the counts the  *)
(* library found for it, and there is one FileStat per record.             *)
(***************************************************************************)
LibFails(k) == "error" \in DOMAIN lib[k]

C7_LibraryFailureIsZeroCounts ==
    /\ pc # "raised"
    /\ pc = "extracted" =>
          /\ Len(stats) = Len(diffs)
          /\ \A k \in 1..Len(diffs) :
                /\ LibFails(k) => stats[k].add = 0 /\ stats[k].del = 0
                /\ ~LibFails(k) =>
                      /\ "additionLength" \in DOMAIN lib[k] =>
                             stats[k].add = lib[k].additionLength
                      /\ "deletionLength" \in DOMAIN lib[k] =>
                             stats[k].del = lib[k].deletionLength

\* the library fails for one of two records and counts lines for the other
C7_Witness ==
    /\ pc = "extracted"
    /\ Len(diffs) = 2
    /\ \E j, k \in 1..2 :
          /\ LibFails(j)
          /\ ~LibFails(k)
          /\ stats[j].add = 0 /\ stats[j].del = 0
          /\ stats[k].add > 0 /\ stats[k].del > 0

(***************************************************************************)
(* C11                                                                     *)
(***************************************************************************)
\* The spelling of a path with its leading '/' and every '/' that follows
\* another '/' removed ("/a" is "a", "a//B" is "a/B").
RECURSIVE DropExtraSlashes(_, _)
DropExtraSlashes(str, afterSlash) ==
    IF str = <<>> THEN <<>>
    ELSE IF Head(str) = Slash /\ afterSlash
    THEN DropExtraSlashes(Tail(str), TRUE)
    ELSE <<Head(str)>> \o DropExtraSlashes(Tail(str), Head(str) = Slash)

CleanSpelling(path) == DropExtraSlashes(path, TRUE)

HasExtraSlashes(path) == CleanSpelling(path) # path

CleanStats ==
    [k \in 1..Len(stats) |-> [stats[k] EXCEPT !.path = CleanSpelling(stats[k].path)]]

\* C11: empty path segments are ignored: the forest built from the stats is
\* the forest built from the same stats with every leading or repeated '/'
\* removed from their paths, so each stat sits at the position, under the
\* node names and node paths, of its clean spelling.
C11_EmptySegmentsIgnored ==
    pc = "built" => forest = buildDiffTree(CleanStats)

\* a call on "/a" and "a//B" has returned, with the nodes a and a/B
C11_Witness ==
    /\ pc = "built"
    /\ \E k \in 1..Len(stats) : stats[k].path = <<"/", "a">>
    /\ \E k \in 1..Len(stats) : stats[k].path = <<"a", "/", "/", "B">>
    /\ \E e \in 1..Len(Located) :
          /\ Located[e].node.type = "file"
          /\ Located[e].node.path = <<"a", "/", "B">>

(***************************************************************************)
(* C12                                                                     *)
(***************************************************************************)
FileFields == {"type", "name", "path", "id", "change", "add", "del"}

DirFields == {"type", "name", "path", "children", "add", "del"}

\* A forest: a sequence of nodes, each a File (a leaf: exactly the File
\* fields, no child map) or a Directory whose children are a forest.
RECURSIVE IsForest(_)
IsForest(nodes) ==
    \A k \in 1..Len(nodes) :
        LET node == nodes[k]
        IN  /\ node.type \in {"file", "dir"}
            /\ node.add \in Nat
            /\ node.del \in Nat
            /\ node.type = "file" => DOMAIN node = FileFields
            /\ node.type = "dir" =>
                  /\ DirFields \subseteq DOMAIN node
                  /\ IsForest(node.children)

HasDuplicatePaths ==
    \E j, k \in 1..Len(stats) : j < k /\ Segs(j) = Segs(k) /\ Segs(j) # <<>>

HasPrefixPaths ==
    \E j, k \in 1..Len(stats) : j < k /\ IsProperPrefix(Segs(j), Segs(k)) /\ Segs(j) # <<>>

\* C12: buildDiffTree is total: on every sequence of FileStats (the empty
\* one, duplicate paths and prefix paths included) the call has a value, that
\* value is a forest, and every call that has returned has returned a forest;
\* the empty sequence gives the empty forest.
C12_Total ==
    /\ pc = "start" =>
          /\ IsForest(buildDiffTree(stats))
          /\ stats = <<>> => buildDiffTree(stats) = <<>>
    /\ pc # "start" =>
          /\ IsForest(forest)
          /\ (pc \in {"built", "rebuilt"} /\ stats = <<>>) => forest = <<>>

\* a call on a sequence with a duplicate path and a prefix path has returned
C12_Witness ==
    /\ pc = "built"
    /\ HasDuplicatePaths
    /\ HasPrefixPaths
    /\ forest # <<>>

(***************************************************************************)
(* DiffFileTree: the expanded set of the file tree component. The diffs    *)
(* prop gives stats, tree and allDirPaths (useMemo); `expanded` starts as  *)
(* the set of allDirPaths, an effect merges allDirPaths into it whenever   *)
(* the list changes, toggleDir and toggleAll are the user's controls.      *)
(***************************************************************************)
MaxTreeDiffs == 2

\* "a", "a/B", "B/a", "a/a/B"
TreePaths ==
    { <<"a">>, <<"a", "/", "B">>, <<"B", "/", "a">>, <<"a", "/", "a", "/", "B">> }

TreeDiffSet == { [change |-> "added", newPath |-> p] : p \in TreePaths }

\* the library gives every record of the list its line counts
TreeLib(ds) == [k \in 1..Len(ds) |-> [additionLength |-> 1, deletionLength |-> 2]]

Range(seq) == { seq[k] : k \in 1..Len(seq) }

\* walk(tree) of the allDirPaths memo: the paths of the Directory nodes,
\* each before the directories below it
RECURSIVE walk(_)
walk(nodes) ==
    IF nodes = <<>> THEN <<>>
    ELSE (IF Head(nodes).type = "dir"
          THEN <<Head(nodes).path>> \o walk(Head(nodes).children)
          ELSE <<>>)
         \o walk(Tail(nodes))

\* The updater of the effect on [allDirPaths]
mergeExpanded(prev, paths) ==
    IF Cardinality(prev) = 0 THEN prev ELSE prev \cup Range(paths)

\* renderNode: the directories that have a button on screen, those below a
\* closed directory are not rendered
RECURSIVE renderedDirs(_, _)
renderedDirs(nodes, open) ==
    IF nodes = <<>> THEN {}
    ELSE (IF Head(nodes).type = "dir"
          THEN {Head(nodes).path}
               \cup (IF Head(nodes).path \in open
                     THEN renderedDirs(Head(nodes).children, open)
                     ELSE {})
          ELSE {})
         \cup renderedDirs(Tail(nodes), open)

\* The component mounted on a diff list: the memos are computed, `expanded`
\* is initialised from allDirPaths, and the effect's first run adds nothing.
InitTree ==
    /\ diffs \in SeqsUpTo(TreeDiffSet, MaxTreeDiffs)
    /\ lib = TreeLib(diffs)
    /\ stats = toFileStats(diffs, lib).value
    /\ given = stats
    /\ root = <<>>
    /\ forest = buildDiffTree(stats)
    /\ first = forest
    /\ other = <<>>
    /\ allDirPaths = walk(forest)
    /\ expanded = mergeExpanded(Range(allDirPaths), allDirPaths)
    /\ seenDirs = {}
    /\ userCollapsed = {}
    /\ pc = "mounted"
    /\ LogsUnmounted
    /\ PanelUnmounted

\* The parent passes another diff list: the memos are recomputed and the
\* effect on [allDirPaths] runs.
UpdateDiffs ==
    \E d \in SeqsUpTo(TreeDiffSet, MaxTreeDiffs) :
        /\ diffs' = d
        /\ lib' = TreeLib(d)
        /\ stats' = toFileStats(diffs', lib').value
        /\ forest' = buildDiffTree(stats')
        /\ allDirPaths' = walk(forest')
        /\ expanded' = mergeExpanded(expanded, allDirPaths')
        /\ seenDirs' = seenDirs \cup Range(allDirPaths)
        /\ pc' = "updated"
        /\ UNCHANGED <<given, root, first, other, userCollapsed, logVars, panelVars>>

\* The user clicks the button of a rendered directory.
toggleDir ==
    \E path \in renderedDirs(forest, expanded) :
        /\ expanded' = IF path \in expanded
                       THEN expanded \ {path}
                       ELSE expanded \cup {path}
        /\ userCollapsed' = IF path \in expanded
                            THEN userCollapsed \cup {path}
                            ELSE userCollapsed \ {path}
        /\ pc' = "toggled"
        /\ UNCHANGED <<stats, given, root, forest, first, other, diffs, lib,
                       allDirPaths, seenDirs, logVars, panelVars>>

\* The user clicks the expand/collapse-all button (disabled without
\* directories).
toggleAll ==
    /\ Len(allDirPaths) > 0
    /\ expanded' = IF Cardinality(expanded) = 0 THEN Range(allDirPaths) ELSE {}
    /\ userCollapsed' = {}
    /\ pc' = "toggledAll"
    /\ UNCHANGED <<stats, given, root, forest, first, other, diffs, lib,
                   allDirPaths, seenDirs, logVars, panelVars>>

NextTree == UpdateDiffs \/ toggleDir \/ toggleAll

SpecTree == InitTree /\ [][NextTree]_vars

(***************************************************************************)
(* C13                                                                     *)
(***************************************************************************)
\* C13: a directory the user collapsed with toggleDir, and has not toggled
\* since (nor used the expand-all control), is not in the expanded set,
\* whatever updates of the diff list happened in between.
C13_CollapsedStaysCollapsed == userCollapsed \cap expanded = {}

(***************************************************************************)
(* C14                                                                     *)
(***************************************************************************)
\* C14: at mount every directory of the first tree is in the expanded set,
\* and right after an update of the diff list every directory of the new
\* tree that no earlier tree had is in the expanded set.
C14_NewDirectoriesExpanded ==
    /\ pc = "mounted" => Range(allDirPaths) \subseteq expanded
    /\ pc = "updated" => (Range(allDirPaths) \ seenDirs) \subseteq expanded

(***************************************************************************)
(* C15: calls of buildDiffTree on the orderings of one input               *)
(***************************************************************************)
MaxOrderStats == 3

OrderStatSet == { s \in StatSet : s.id \in {<<"x">>, <<"y">>} }

InitOrder ==
    /\ stats \in SeqsUpTo(OrderStatSet, MaxOrderStats)
    /\ given = stats
    /\ root = <<>>
    /\ forest = <<>>
    /\ first = <<>>
    /\ other = <<>>
    /\ diffs = <<>>
    /\ lib = <<>>
    /\ pc = "start"
    /\ TreeUnmounted
    /\ LogsUnmounted
    /\ PanelUnmounted

SpecOrder == InitOrder /\ [][Next]_vars

\* The stats in the order perm gives them
Reordered(perm) == [k \in 1..Len(stats) |-> stats[perm[k]]]

\* A node as a structure: the entries of a child map form a set, as the
\* keys of an object do
RECURSIVE Structure(_)
Structure(node) ==
    IF node.type = "dir"
    THEN LET kids == [k \in 1..Len(node.children) |-> Structure(node.children[k])]
             withKids == [node EXCEPT !.children = kids]
         IN  IF HasChildMap(node)
             THEN [withKids EXCEPT !.childMap =
                      { [key |-> node.childMap[k].key,
                         node |-> Structure(node.childMap[k].node)] :
                          k \in 1..Len(node.childMap) }]
             ELSE withKids
    ELSE node

StructureOf(nodes) == [k \in 1..Len(nodes) |-> Structure(nodes[k])]

SegsNonEmpty == \A k \in 1..Len(stats) : Segs(k) # <<>>

NoProperPrefix ==
    \A j, k \in 1..Len(stats) : ~IsProperPrefix(Segs(j), Segs(k))

PathsDistinct ==
    \A j, k \in 1..Len(stats) : j # k => stats[j].path # stats[k].path

SegsDistinct ==
    \A j, k \in 1..Len(stats) : j # k => Segs(j) # Segs(k)

OrderIndependent ==
    /\ \A perm \in Permutations(1..Len(stats)) :
          StructureOf(buildDiffTree(Reordered(perm))) = StructureOf(forest)
    /\ Adds(forest) = Adds(stats)
    /\ Dels(forest) = Dels(stats)

\* C15 as stated: with paths that are distinct strings, non-empty after
\* dropping empty segments, none a proper prefix by segments of another,
\* every ordering of the stats gives the same forest, and the roots' add and
\* del sums are the sums over the stats.
C15_AsStated ==
    (pc = "built" /\ PathsDistinct /\ SegsNonEmpty /\ NoProperPrefix)
        => OrderIndependent

\* C15: as above, for stats whose segment sequences (the paths after
\* dropping empty segments) are distinct.
C15_OrderIndependent ==
    (pc = "built" /\ SegsDistinct /\ SegsNonEmpty /\ NoProperPrefix)
        => OrderIndependent

\* a call on three stats in two directories has returned, and another
\* ordering of them fills the maps in another order
C15_Witness ==
    /\ pc = "built"
    /\ Len(stats) = 3
    /\ SegsDistinct /\ SegsNonEmpty /\ NoProperPrefix
    /\ \E e \in 1..Len(Located) : Len(Located[e].route) = 3
    /\ \E perm \in Permutations(1..Len(stats)) :
          insertAll(NewRoot, Reordered(perm), 1) # root

(***************************************************************************)
(* useContainerLogs: the hook behind ServiceLogsViewer. The effect on      *)
(* [containerName] closes the socket of the previous run and opens one for *)
(* the new name; the handlers of every socket the hook created stay        *)
(* attached to it and write the hook's state when the socket's events are  *)
(* delivered.                                                              *)
(***************************************************************************)
MAX_LOG_LINES == 500

MaxSockets == 2

MaxMessages == 3

\* containerName is undefined (or '')
NoName == <<>>

ContainerNames == { <<"a">>, <<"B">> }

\* event.data of a message: text JSON.parse rejects, JSON null, or an object
\* with an empty or a non-empty content, with or without channel
MessageSet ==
    { [unparsable |-> TRUE],
      [json |-> "null"],
      [channel |-> "stderr", content |-> <<>>],
      [channel |-> "stderr", content |-> <<"e">>],
      [content |-> <<"o">>] }

\* The n-th line of a container that writes numbered lines, alternately to
\* stdout and stderr
Line(n) ==
    [channel |-> IF n % 2 = 0 THEN "stderr" ELSE "stdout", content |-> StringOf(n)]

\* !data?.content
NoContent(data) == ~("content" \in DOMAIN data /\ Boolean(data.content))

\* data.channel === 'stderr' ? 'STDERR' : 'STDOUT'
channelOf(data) ==
    IF "channel" \in DOMAIN data /\ data.channel = "stderr" THEN "STDERR" ELSE "STDOUT"

\* Faulty variant: the list is cut to its first MAX_LOG_LINES entries.
appendLogKeepOldest(prev, data) ==
    LET next == Append(prev, [type |-> channelOf(data), content |-> data.content])
    IN  IF Len(next) > MAX_LOG_LINES THEN SubSeq(next, 1, MAX_LOG_LINES) ELSE next

\* The updater given to setLogs by onmessage
appendLog(prev, data) ==
    LET next == Append(prev, [type |-> channelOf(data), content |-> data.content])
    IN  IF Len(next) > MAX_LOG_LINES
        THEN SubSeq(next, Len(next) - MAX_LOG_LINES + 1, Len(next))
        ELSE next

\* ws.onmessage on the logs: a parse failure is caught, a message without
\* content returns early
onMessageLogs(prev, data) ==
    IF "unparsable" \in DOMAIN data THEN prev
    ELSE IF NoContent(data) THEN prev
    ELSE appendLog(prev, data)

NewSocket(name) == [container |-> name, readyState |-> "CONNECTING", errored |-> FALSE]

\* WebSocket.close(): an open or connecting socket starts closing, its close
\* event comes later
closeSocket(socks, i) ==
    IF i # 0 /\ socks[i].readyState \in {"CONNECTING", "OPEN"}
    THEN [socks EXCEPT ![i].readyState = "CLOSING"]
    ELSE socks

\* The hook mounted with containerName undefined or set: the effect has run.
InitFresh ==
    /\ containerName \in {NoName} \cup ContainerNames
    /\ logs = <<>>
    /\ error = "null"
    /\ received = <<>>
    /\ delivered = 0
    /\ IF Boolean(containerName)
       THEN sockets = <<NewSocket(containerName)>> /\ wsRef = 1 /\ isActive = TRUE
       ELSE sockets = <<>> /\ wsRef = 0 /\ isActive = FALSE

\* The hook after a socket opened and delivered MAX_LOG_LINES - 1 lines.
InitStreaming ==
    /\ containerName \in ContainerNames
    /\ sockets = <<[NewSocket(containerName) EXCEPT !.readyState = "OPEN"]>>
    /\ wsRef = 1
    /\ isActive = TRUE
    /\ error = "null"
    /\ received = [n \in 1..(MAX_LOG_LINES - 1) |-> Line(n)]
    /\ logs = [n \in 1..(MAX_LOG_LINES - 1) |->
                  [type |-> channelOf(Line(n)), content |-> Line(n).content]]
    /\ delivered = 0

InitLogs ==
    /\ InitFresh \/ InitStreaming
    /\ stats = <<>>
    /\ given = <<>>
    /\ root = <<>>
    /\ forest = <<>>
    /\ first = <<>>
    /\ other = <<>>
    /\ diffs = <<>>
    /\ lib = <<>>
    /\ pc = "mounted"
    /\ TreeUnmounted
    /\ PanelUnmounted

idle == <<stats, given, root, forest, first, other, diffs, lib, treeVars, panelVars>>

\* The component re-renders with another containerName: the cleanup of the
\* previous run of the effect (there is one when the previous name was set),
\* then the effect.
ChangeContainer ==
    \E name \in ({NoName} \cup ContainerNames) \ {containerName} :
        LET cleaned == IF Boolean(containerName) THEN closeSocket(sockets, wsRef) ELSE sockets
        IN  /\ Boolean(name) => Len(sockets) < MaxSockets
            /\ containerName' = name
            /\ IF Boolean(name)
               THEN /\ sockets' = Append(cleaned, NewSocket(name))
                    /\ wsRef' = Len(sockets')
                    /\ isActive' = TRUE
                    /\ UNCHANGED <<logs, error>>
               ELSE /\ sockets' = cleaned
                    /\ wsRef' = IF Boolean(containerName) THEN 0 ELSE wsRef
                    /\ logs' = <<>>
                    /\ error' = "null"
                    /\ isActive' = FALSE
            /\ received' = IF Boolean(name) THEN received ELSE <<>>
            /\ pc' = "changed"
            /\ UNCHANGED <<delivered, idle>>

\* ws.onopen of socket i
onopen ==
    \E i \in 1..Len(sockets) :
        /\ sockets[i].readyState = "CONNECTING"
        /\ sockets' = [sockets EXCEPT ![i].readyState = "OPEN"]
        /\ logs' = <<>>
        /\ error' = "null"
        /\ received' = <<>>
        /\ pc' = "opened"
        /\ UNCHANGED <<containerName, isActive, wsRef, delivered, idle>>

\* ws.onmessage of socket i: message events fire on open sockets only
onmessage ==
    \E i \in 1..Len(sockets), data \in MessageSet :
        /\ sockets[i].readyState = "OPEN"
        /\ delivered < MaxMessages
        /\ delivered' = delivered + 1
        /\ logs' = onMessageLogs(logs, data)
        /\ received' = Append(received, data)
        /\ pc' = "message"
        /\ UNCHANGED <<containerName, error, isActive, wsRef, sockets, idle>>

\* ws.onerror of socket i: the connection failed, or the socket was closed
\* before the connection was established; the close event follows
onerror ==
    \E i \in 1..Len(sockets) :
        /\ sockets[i].readyState \in {"CONNECTING", "OPEN", "CLOSING"}
        /\ ~sockets[i].errored
        /\ sockets' = [sockets EXCEPT ![i].readyState = "CLOSING", ![i].errored = TRUE]
        /\ error' = "connection"
        /\ pc' = "error"
        /\ UNCHANGED <<containerName, logs, isActive, wsRef, received, delivered, idle>>

\* ws.onclose of socket i: the server closed it, or a close the hook or a
\* failure started has completed
onclose ==
    \E i \in 1..Len(sockets) :
        /\ sockets[i].readyState \in {"OPEN", "CLOSING"}
        /\ sockets' = [sockets EXCEPT ![i].readyState = "CLOSED"]
        /\ isActive' = FALSE
        /\ pc' = "closed"
        /\ UNCHANGED <<containerName, logs, error, wsRef, received, delivered, idle>>

NextLogs == ChangeContainer \/ onopen \/ onmessage \/ onerror \/ onclose

SpecLogs == InitLogs /\ [][NextLogs]_vars

(***************************************************************************)
(* C16                                                                     *)
(***************************************************************************)
\* C16: while a container name is set and the socket opened for it has not
\* itself closed, isActive is true, whatever the sockets of earlier names do.
C16_ActiveWhileCurrentSocketLives ==
    (Boolean(containerName) /\ wsRef # 0 /\ sockets[wsRef].readyState # "CLOSED")
        => isActive = TRUE

(***************************************************************************)
(* C18                                                                     *)
(***************************************************************************)
\* a message that parses and has a non-empty content
ContentBearing(data) ==
    /\ "unparsable" \notin DOMAIN data
    /\ "content" \in DOMAIN data
    /\ data.content # <<>>

\* the log entry a content-bearing message stands for
EntryFor(data) ==
    [type |-> IF "channel" \in DOMAIN data /\ data.channel = "stderr"
              THEN "STDERR" ELSE "STDOUT",
     content |-> data.content]

LastN(seq, n) == IF Len(seq) <= n THEN seq ELSE SubSeq(seq, Len(seq) - n + 1, Len(seq))

\* the content-bearing messages among those received since the open event
Arrived == SelectSeq(received, ContentBearing)

CurrentSocketOpened ==
    wsRef # 0 /\ sockets[wsRef].readyState # "CONNECTING"

LogsAreLatestEntries ==
    /\ Len(logs) <= MAX_LOG_LINES
    /\ CurrentSocketOpened =>
          LET latest == LastN(Arrived, MAX_LOG_LINES)
          IN  logs = [k \in 1..Len(latest) |-> EntryFor(latest[k])]

NoContentLeavesLogs ==
    (pc' = "message" /\ delivered' = delivered + 1
        /\ ~ContentBearing(received'[Len(received')]))
    => logs' = logs

\* C18: the logs list never holds more than MAX_LOG_LINES entries; once the
\* current socket has opened it is the entries of the latest MAX_LOG_LINES
\* content-bearing messages received since the open event, in arrival
\* order; a message that fails to parse or has no content leaves it
\* unchanged.
C18_LogsBoundedAndLatest ==
    /\ []LogsAreLatestEntries
    /\ [][NoContentLeavesLogs]_vars

\* more than MAX_LOG_LINES content-bearing messages have arrived, the last
\* one just now, and one without content before it
C18_Witness ==
    /\ pc = "message"
    /\ CurrentSocketOpened
    /\ Len(Arrived) > MAX_LOG_LINES
    /\ Len(received) > Len(Arrived)
    /\ ContentBearing(received[Len(received)])
    /\ Len(logs) = MAX_LOG_LINES

(***************************************************************************)
(* EnvironmentPanel: the selected service and the restart control. A       *)
(* service is its containerName. Every action runs the renders and the     *)
(* effects that follow the state change it makes.                          *)
(***************************************************************************)
MaxServices == 2

MaxRequests == 2

PanelNull == "null"

Undefined == "undefined"

ServiceNames == {"a", "b", "c"}

\* The lists the query can return: container names are unique
ServiceLists ==
    { list \in SeqsUpTo(ServiceNames, MaxServices) :
        \A j, k \in 1..Len(list) : j # k => list[j] # list[k] }

\* services.some((svc) => svc.containerName === id)
Contains(svcs, id) == \E k \in 1..Len(svcs) : svcs[k] = id

\* Faulty variant: the first service is selected whenever there is one.
selectionEffectFirst(svcs, sel) ==
    IF Len(svcs) = 0 THEN PanelNull ELSE svcs[1]

\* The effect on [services, selectedId]: the selectedId it leaves
selectionEffect(svcs, sel) ==
    IF Len(svcs) = 0 THEN PanelNull
    ELSE IF sel = PanelNull \/ ~Contains(svcs, sel) THEN svcs[1]
    ELSE sel

\* selectedService?.containerName
selectedName(svcs, sel) == IF Contains(svcs, sel) THEN sel ELSE Undefined

\* The render with svcs and sel, its effects, and the render and effects the
\* selection effect's setSelectedId brings: the effect on
\* [selectedService?.containerName] resets the restart state when that name
\* differs from the one of the render before.
commit(svcs, sel) ==
    LET was == selectedName(services, selectedId)
        now == selectedName(svcs, sel)
        sel2 == selectionEffect(svcs, sel)
        then == selectedName(svcs, sel2)
        reset == now # was \/ then # now
    IN  /\ selectedId' = sel2
        /\ restartStatus' = IF reset THEN PanelNull ELSE restartStatus
        /\ isRestarting' = IF reset THEN FALSE ELSE isRestarting

RemoveAt(seq, i) == SubSeq(seq, 1, i - 1) \o SubSeq(seq, i + 1, Len(seq))

\* The panel mounted, the query has no data yet.
InitPanel ==
    /\ services = <<>>
    /\ selectedId = PanelNull
    /\ isRestarting = FALSE
    /\ restartStatus = PanelNull
    /\ requests = <<>>
    /\ continued = PanelNull
    /\ stats = <<>>
    /\ given = <<>>
    /\ root = <<>>
    /\ forest = <<>>
    /\ first = <<>>
    /\ other = <<>>
    /\ diffs = <<>>
    /\ lib = <<>>
    /\ pc = "mounted"
    /\ TreeUnmounted
    /\ LogsUnmounted

elsewhere == <<stats, given, root, forest, first, other, diffs, lib, treeVars, logVars>>

\* The query delivers another list (the 15 s interval, or a refetch).
servicesUpdate ==
    \E list \in ServiceLists \ {services} :
        /\ services' = list
        /\ commit(list, selectedId)
        /\ continued' = PanelNull
        /\ pc' = "refetched"
        /\ UNCHANGED <<requests, elsewhere>>

\* The user clicks a service of the list.
selectService ==
    \E k \in 1..Len(services) :
        /\ commit(services, services[k])
        /\ continued' = PanelNull
        /\ pc' = "selected"
        /\ UNCHANGED <<services, requests, elsewhere>>

\* The user clicks the restart button (rendered for a selected service,
\* disabled while isRestarting): handleRestart up to its first await.
handleRestart ==
    /\ selectedName(services, selectedId) # Undefined
    /\ ~isRestarting
    /\ Len(requests) < MaxRequests
    /\ isRestarting' = TRUE
    /\ restartStatus' = PanelNull
    /\ requests' = Append(requests, [service |-> selectedId, stage |-> "restarting"])
    /\ continued' = PanelNull
    /\ pc' = "restarting"
    /\ UNCHANGED <<services, selectedId, elsewhere>>

\* restartService resolved: handleRestart up to `await refetch()`.
restartResolved ==
    \E i \in 1..Len(requests) :
        /\ requests[i].stage = "restarting"
        /\ restartStatus' = "success"
        /\ requests' = [requests EXCEPT ![i].stage = "refetching"]
        /\ continued' = requests[i].service
        /\ pc' = "resolved"
        /\ UNCHANGED <<services, selectedId, isRestarting, elsewhere>>

\* restartService rejected: the catch and the finally of handleRestart.
restartRejected ==
    \E i \in 1..Len(requests) :
        /\ requests[i].stage = "restarting"
        /\ restartStatus' = "error"
        /\ isRestarting' = FALSE
        /\ requests' = RemoveAt(requests, i)
        /\ continued' = requests[i].service
        /\ pc' = "rejected"
        /\ UNCHANGED <<services, selectedId, elsewhere>>

\* refetch() settled: the finally of handleRestart.
refetchSettled ==
    \E i \in 1..Len(requests) :
        /\ requests[i].stage = "refetching"
        /\ isRestarting' = FALSE
        /\ requests' = RemoveAt(requests, i)
        /\ continued' = requests[i].service
        /\ pc' = "settled"
        /\ UNCHANGED <<services, selectedId, restartStatus, elsewhere>>

NextPanel ==
    \/ servicesUpdate
    \/ selectService
    \/ handleRestart
    \/ restartResolved
    \/ restartRejected
    \/ refetchSettled

SpecPanel == InitPanel /\ [][NextPanel]_vars

(***************************************************************************)
(* C17                                                                     *)
(***************************************************************************)
\* C17: when a handleRestart call continues (its request succeeded or
\* failed, or its refetch settled) while another service than the one it
\* restarted is selected, the step leaves restartStatus and isRestarting as
\* they were.
C17_StaleCompletionIgnored ==
    [][(/\ pc' \in {"resolved", "rejected", "settled"}
        /\ selectedId # PanelNull
        /\ continued' # selectedId)
          => (restartStatus' = restartStatus /\ isRestarting' = isRestarting)]_vars

(***************************************************************************)
(* C19                                                                     *)
(***************************************************************************)
SelectionFitsList ==
    /\ selectedId = PanelNull <=> services = <<>>
    /\ services # <<>> => \E k \in 1..Len(services) : services[k] = selectedId

RefetchKeepsOrMoves ==
    pc' = "refetched" /\ services' # services =>
        IF \E k \in 1..Len(services') : services'[k] = selectedId
        THEN selectedId' = selectedId
        ELSE services' # <<>> => selectedId' = services'[1]

\* C19: after the selection effect selectedId is null exactly when the list
\* is empty and otherwise names a service of the list; a refetch whose list
\* still has the selected service leaves selectedId unchanged, one whose
\* list has lost it selects the first service of the new list.
C19_SelectionFollowsList ==
    /\ []SelectionFitsList
    /\ [][RefetchKeepsOrMoves]_vars

\* a refetch has delivered two services and the selection stayed on the
\* second one
C19_Witness ==
    /\ pc = "refetched"
    /\ Len(services) = 2
    /\ selectedId = services[2]

====
